---- MODULE Spec2Model ----
(***************************************************************************)
(* Room membership state machine of the signalling server (src/server.js). *)
(* Every socket.io handler runs to completion on the single event loop, so *)
(* each handler is one atomic action.  The registry `rooms`, the socket.io *)
(* connection table and adapter rooms, the pending 60 s reaper timers and  *)
(* the packets emitted by the last handler are the state.                  *)
(***************************************************************************)
EXTENDS Integers, Sequences, FiniteSets, TLC

\* ------------------------------------------------------------------ bounds
MaxSockets == 2
MaxRooms == 2

\* hostId: null / hostPeerId: null
Null == 0

\* a roomId that names a property every plain object inherits ("constructor",
\* "toString", "__proto__", ...): `rooms` is a plain object, so rooms[roomId]
\* finds it although no room was ever stored under it
InheritedKey == -1

Sockets == 1..MaxSockets
RoomIds == 1..MaxRooms

\* join-room payload: a client announces one username and one peerId for the
\* life of its connection, each its own
UsernameOf(s) == <<"user", s>>
PeerIdOf(s) == 100 + s
PeerIds == {PeerIdOf(s) : s \in Sockets}

VARIABLES
    rooms,      \* const rooms = {}: roomId -> room record
    created,    \* number of uuidv4() room ids handed out so far
    conn,       \* per socket id: "idle" (not yet handed out) | "open" | "closed"
    joined,     \* socket.io adapter: the room ids each socket has join()ed
    timers,     \* pending setTimeout(..., 60000) callbacks, in firing order
    out,        \* packets emitted by the last handler, in emit order
    last,       \* the last event processed
    everJoined, \* history: the room ids a join-room has been admitted to
    alive       \* FALSE once a handler has thrown: nothing catches it, the process ends

vars == <<rooms, created, conn, joined, timers, out, last, everJoined, alive>>

\* ----------------------------------------------------------------- helpers
Put(f, k, v) == [x \in (DOMAIN f) \cup {k} |-> IF x = k THEN v ELSE f[x]]
Del(f, k) == [x \in (DOMAIN f) \ {k} |-> f[x]]
EmptyMap == [x \in {} |-> Null]

Msg(to, ev, data) == [to |-> to, ev |-> ev, data |-> data]

\* ev: the event; sock: the socket whose handler ran; room, pid: the roomId and
\* participantId of its payload; flag: isHost of a join-room, and for a timer
\* whether a join-room for its room was processed since it was scheduled
Event(ev, sock, room, pid, flag) ==
    [ev |-> ev, sock |-> sock, room |-> room, pid |-> pid, flag |-> flag]

\* a set of socket ids as a sequence, in ascending order
SeqOf(S) == SelectSeq([i \in 1..MaxSockets |-> i], LAMBDA t : t \in S)

\* one packet per recipient
Emit(recipients, ev, data) ==
    LET q == SeqOf(recipients) IN [i \in 1..Len(q) |-> Msg(q[i], ev, data)]

\* packets reach connected sockets only
Writable(cn) == {t \in Sockets : cn[t] = "open"}

\* io.to(roomId): every socket that join()ed roomId
IoTo(r, cn, jn) == {t \in Writable(cn) : r \in jn[t]}

\* socket.to(roomId): the same, the sending socket excepted
SocketTo(r, s, cn, jn) == IoTo(r, cn, jn) \ {s}

\* io.to(socketId): the socket's own room
IoToSocket(t, cn) == {t} \cap Writable(cn)

\* io.sockets.sockets.get(id) is defined while the socket is connected
SocketExists(t, cn) == cn[t] = "open"

RoomEmpty(room) ==
    /\ DOMAIN room.participants = {}
    /\ DOMAIN room.waitingParticipants = {}

\* -------------------------------------------------------------------- Init
Init ==
    /\ rooms = EmptyMap
    /\ created = 0
    /\ conn = [s \in Sockets |-> "idle"]
    /\ joined = [s \in Sockets |-> {}]
    /\ timers = << >>
    /\ out = << >>
    /\ last = Event("init", Null, Null, Null, FALSE)
    /\ everJoined = {}
    /\ alive = TRUE

\* ---------------------------------------------------------- POST /api/room
NewRoom ==
    [participants |-> EmptyMap,
     waitingParticipants |-> EmptyMap,
     hostId |-> Null,
     hostPeerId |-> Null]

CreateRoom ==
    /\ alive
    /\ UNCHANGED <<everJoined, alive>>
    /\ created < MaxRooms
    /\ created' = created + 1
    /\ rooms' = Put(rooms, created + 1, NewRoom)
    /\ out' = << >>
    /\ last' = Event("create-room", Null, created + 1, Null, FALSE)
    /\ UNCHANGED <<conn, joined, timers>>

\* ------------------------------------------------------ io.on("connection")
\* socket ids are fresh: the next connection gets the next unused id
NextSocket == Cardinality({s \in Sockets : conn[s] # "idle"}) + 1

Connect ==
    /\ alive
    /\ UNCHANGED <<everJoined, alive>>
    /\ NextSocket <= MaxSockets
    /\ conn' = [conn EXCEPT ![NextSocket] = "open"]
    /\ out' = << >>
    /\ last' = Event("connection", NextSocket, Null, Null, FALSE)
    /\ UNCHANGED <<rooms, created, joined, timers>>

\* ---------------------------------------------------------------- join-room
HostRecord(u, p) ==
    [username |-> u, peerId |-> p, audioEnabled |-> TRUE,
     videoEnabled |-> TRUE, isHost |-> TRUE]

WaitingRecord(u, p) == [username |-> u, peerId |-> p]

JoinsAsHost_FlagOnly(room, h) == h

\* if (isHost || !room.hostId)
JoinsAsHost(room, h) == h \/ room.hostId = Null

\* a join-room processed for room r is noted on every timer pending for r
MarkJoin(tq, r) ==
    [i \in 1..Len(tq) |->
        IF tq[i].room = r THEN [tq[i] EXCEPT !.joinSeen = TRUE] ELSE tq[i]]

\* rooms[roomId] is truthy: a stored room, or a property inherited by `rooms`
Found(rms, r) == r \in DOMAIN rms \/ r = InheritedKey

JoinRoom(s, r, u, p, h) ==
    /\ alive
    /\ conn[s] = "open"
    /\ last' = Event("join-room", s, r, Null, h)
    /\ UNCHANGED <<created, conn>>
    /\ everJoined' = IF r \in DOMAIN rooms THEN everJoined \cup {r} ELSE everJoined
    /\ alive' = (r # InheritedKey)
    /\ IF ~Found(rooms, r)
       THEN /\ out' = <<Msg(s, "room-error", Null)>>
            /\ UNCHANGED <<rooms, joined, timers>>
       ELSE IF r = InheritedKey
       \* the inherited object has no hostId, so the host branch is taken: hostId
       \* and hostPeerId are set on that object, the socket join()s the roomId, and
       \* room.participants[participantId] = ... throws a TypeError
       THEN /\ joined' = [joined EXCEPT ![s] = @ \cup {r}]
            /\ out' = << >>
            /\ UNCHANGED <<rooms, timers>>
       ELSE IF JoinsAsHost(rooms[r], h)
       THEN /\ rooms' = [rooms EXCEPT ![r] =
                 [@ EXCEPT !.hostId = s,
                           !.hostPeerId = p,
                           !.participants = Put(@, s, HostRecord(u, p))]]
            /\ joined' = [joined EXCEPT ![s] = @ \cup {r}]
            /\ out' = <<Msg(s, "host-status", TRUE),
                        Msg(s, "room-participants", EmptyMap)>>
            /\ timers' = MarkJoin(timers, r)
       ELSE /\ rooms' = [rooms EXCEPT ![r] =
                 [@ EXCEPT !.waitingParticipants = Put(@, s, WaitingRecord(u, p))]]
            /\ out' = <<Msg(s, "waiting-for-approval", Null)>>
                      \o Emit(IoToSocket(rooms[r].hostId, conn), "join-request",
                              [participantId |-> s, username |-> u, peerId |-> p])
            /\ timers' = MarkJoin(timers, r)
            /\ UNCHANGED joined

\* --------------------------------------------------------------- disconnect
Schedule_Never(tq, room, r) == tq

\* "Clean up empty rooms": setTimeout(..., 60000) when both maps are empty
Schedule(tq, room, r) ==
    IF RoomEmpty(room) THEN Append(tq, [room |-> r, joinSeen |-> FALSE]) ELSE tq

\* a disconnect pass that forgets the waiting room
DisconnectRoom_KeepWaiting(st, r, s, cn, jn) ==
    LET room == st.rooms[r]
        afterP == IF s \in DOMAIN room.participants
                  THEN [room EXCEPT !.participants = Del(@, s)]
                  ELSE room
    IN [rooms |-> [st.rooms EXCEPT ![r] = afterP],
        timers |-> Schedule(st.timers, afterP, r),
        out |-> st.out]

\* One iteration of `for (const roomId in rooms)` for the socket s, which has
\* already left every adapter room; st = [rooms, timers, out].
DisconnectRoom(st, r, s, cn, jn) ==
    LET room == st.rooms[r]
        wasIn == s \in DOMAIN room.participants
        wasHost == room.hostId = s
        afterP ==
            IF wasIn
            THEN IF wasHost
                 THEN [room EXCEPT !.hostId = Null, !.hostPeerId = Null,
                                   !.participants = Del(@, s)]
                 ELSE [room EXCEPT !.participants = Del(@, s)]
            ELSE room
        afterW == [afterP EXCEPT !.waitingParticipants = Del(@, s)]
        sent ==
            IF wasIn
            THEN IF wasHost
                 THEN Emit(IoTo(r, cn, jn), "host-left", Null)
                 ELSE Emit(SocketTo(r, s, cn, jn), "user-left",
                           [participantId |-> s,
                            peerId |-> room.participants[s].peerId])
            ELSE << >>
    IN [rooms |-> [st.rooms EXCEPT ![r] = afterW],
        timers |-> Schedule(st.timers, afterW, r),
        out |-> st.out \o sent]

RECURSIVE DisconnectLoop(_, _, _, _, _)
DisconnectLoop(st, r, s, cn, jn) ==
    IF r > created THEN st
    ELSE DisconnectLoop(
            IF r \in DOMAIN st.rooms THEN DisconnectRoom(st, r, s, cn, jn) ELSE st,
            r + 1, s, cn, jn)

\* the socket's close completes: it leaves its rooms and the connection
\* table, then its "disconnect" handler runs; st = [rooms, timers, out, conn, joined]
OnDisconnect(st, s) ==
    LET cn == [st.conn EXCEPT ![s] = "closed"]
        jn == [st.joined EXCEPT ![s] = {}]
        done == DisconnectLoop([rooms |-> st.rooms, timers |-> st.timers,
                                out |-> st.out], 1, s, cn, jn)
    IN [rooms |-> done.rooms, timers |-> done.timers, out |-> done.out,
        conn |-> cn, joined |-> jn]

Current == [rooms |-> rooms, timers |-> timers, out |-> << >>,
            conn |-> conn, joined |-> joined]

Commit(st) ==
    /\ rooms' = st.rooms
    /\ timers' = st.timers
    /\ out' = st.out
    /\ conn' = st.conn
    /\ joined' = st.joined

Disconnect(s) ==
    /\ alive
    /\ UNCHANGED <<everJoined, alive>>
    /\ conn[s] = "open"
    /\ Commit(OnDisconnect(Current, s))
    /\ last' = Event("disconnect", s, Null, Null, FALSE)
    /\ UNCHANGED created

ForceDisconnect_Skip(st, c) == st

\* socket.disconnect(true): a no-op on a socket that is not connected; else
\* the socket leaves its rooms and its "disconnect" handler runs at once,
\* inside the calling handler
ForceDisconnect(st, c) ==
    IF st.conn[c] # "open" THEN st ELSE OnDisconnect(st, c)

Unauthorized_RoomOnly(rms, r, s) == r \notin DOMAIN rms

\* if (!room || room.hostId !== socket.id)
Unauthorized(rms, r, s) == r \notin DOMAIN rms \/ rms[r].hostId # s

\* ------------------------------------------------------ approve-participant
ParticipantRecord(w) ==
    [username |-> w.username, peerId |-> w.peerId, audioEnabled |-> TRUE,
     videoEnabled |-> TRUE, isHost |-> FALSE]

\* existingParticipants: every entry of room.participants but participantId's
Roster(ps, c) == Del(ps, c)

ApproveParticipant(s, r, c) ==
    /\ alive
    /\ UNCHANGED <<everJoined, alive>>
    /\ conn[s] = "open"
    /\ last' = Event("approve-participant", s, r, c, FALSE)
    /\ UNCHANGED <<created, conn, timers>>
    /\ IF Unauthorized(rooms, r, s)
       THEN /\ out' = <<Msg(s, "error", "Unauthorized")>>
            /\ UNCHANGED <<rooms, joined>>
       ELSE IF c \notin DOMAIN rooms[r].waitingParticipants
       THEN /\ out' = << >>
            /\ UNCHANGED <<rooms, joined>>
       ELSE LET w == rooms[r].waitingParticipants[c]
                ps == Put(rooms[r].participants, c, ParticipantRecord(w))
                jn == [joined EXCEPT ![c] = @ \cup {r}]
            IN /\ rooms' = [rooms EXCEPT ![r] =
                      [@ EXCEPT !.participants = ps,
                                !.waitingParticipants = Del(@, c)]]
               /\ IF SocketExists(c, conn)
                  THEN /\ joined' = jn
                       /\ out' = Emit(IoToSocket(c, conn), "approval-granted", Null)
                                 \o Emit(IoToSocket(c, conn), "room-participants",
                                         Roster(ps, c))
                                 \o Emit(SocketTo(r, s, conn, jn), "user-joined",
                                         [participantId |-> c,
                                          username |-> w.username,
                                          peerId |-> w.peerId])
                  ELSE /\ out' = << >>
                       /\ UNCHANGED joined

\* ------------------------------------------------------- reject-participant
RejectParticipant(s, r, c) ==
    /\ alive
    /\ UNCHANGED <<everJoined, alive>>
    /\ conn[s] = "open"
    /\ last' = Event("reject-participant", s, r, c, FALSE)
    /\ UNCHANGED created
    /\ IF Unauthorized(rooms, r, s)
       THEN /\ out' = <<Msg(s, "error", "Unauthorized")>>
            /\ UNCHANGED <<rooms, conn, joined, timers>>
       ELSE IF c \notin DOMAIN rooms[r].waitingParticipants
       THEN /\ out' = << >>
            /\ UNCHANGED <<rooms, conn, joined, timers>>
       ELSE LET st == [Current EXCEPT
                         !.rooms = [@ EXCEPT ![r] =
                             [@ EXCEPT !.waitingParticipants = Del(@, c)]],
                         !.out = Emit(IoToSocket(c, conn), "approval-rejected", Null)]
            IN Commit(IF SocketExists(c, conn) THEN ForceDisconnect(st, c) ELSE st)

\* ------------------------------------------------------- remove-participant
RemoveParticipant(s, r, c, p) ==
    /\ alive
    /\ UNCHANGED <<everJoined, alive>>
    /\ conn[s] = "open"
    /\ last' = Event("remove-participant", s, r, c, FALSE)
    /\ UNCHANGED created
    /\ IF Unauthorized(rooms, r, s)
       THEN /\ out' = <<Msg(s, "error", "Only host can remove participants")>>
            /\ UNCHANGED <<rooms, conn, joined, timers>>
       ELSE IF c \notin DOMAIN rooms[r].participants
       THEN /\ out' = << >>
            /\ UNCHANGED <<rooms, conn, joined, timers>>
       ELSE LET st == [Current EXCEPT
                         !.rooms = [@ EXCEPT ![r] =
                             [@ EXCEPT !.participants = Del(@, c)]],
                         !.out = Emit(IoToSocket(c, conn), "you-were-removed", Null)
                                 \o Emit(SocketTo(r, s, conn, joined), "user-removed",
                                         [participantId |-> c, peerId |-> p])]
            IN Commit(IF SocketExists(c, conn) THEN ForceDisconnect(st, c) ELSE st)

\* ------------------------------------------------- get-waiting-participants
GetWaitingParticipants(s, r) ==
    /\ alive
    /\ UNCHANGED <<everJoined, alive>>
    /\ conn[s] = "open"
    /\ last' = Event("get-waiting-participants", s, r, Null, FALSE)
    /\ out' = IF Unauthorized(rooms, r, s) THEN << >>
              ELSE <<Msg(s, "waiting-participants", rooms[r].waitingParticipants)>>
    /\ UNCHANGED <<rooms, created, conn, joined, timers>>

\* ------------------------------------------------- setTimeout(..., 60000)
StillEmpty_NoRecheck(rms, r) == r \in DOMAIN rms

\* a re-check that looks at participants only
StillEmpty_ParticipantsOnly(rms, r) ==
    r \in DOMAIN rms /\ DOMAIN rms[r].participants = {}

\* the re-check made when the timer fires
StillEmpty(rms, r) == r \in DOMAIN rms /\ RoomEmpty(rms[r])

TimerFire ==
    /\ alive
    /\ UNCHANGED <<everJoined, alive>>
    /\ timers # << >>
    /\ LET r == Head(timers).room
       IN /\ rooms' = IF StillEmpty(rooms, r) THEN Del(rooms, r) ELSE rooms
          /\ last' = Event("timer", Null, r, Null, Head(timers).joinSeen)
    /\ timers' = Tail(timers)
    /\ out' = << >>
    /\ UNCHANGED <<created, conn, joined>>

\* -------------------------------------------------------------------- Next
Next ==
    \/ CreateRoom
    \/ Connect
    \/ \E s \in Sockets, r \in RoomIds \cup {InheritedKey}, h \in BOOLEAN :
          JoinRoom(s, r, UsernameOf(s), PeerIdOf(s), h)
    \/ \E s \in Sockets, r \in RoomIds, c \in Sockets : ApproveParticipant(s, r, c)
    \/ \E s \in Sockets, r \in RoomIds, c \in Sockets :
          RejectParticipant(s, r, c)
    \/ \E s \in Sockets, r \in RoomIds, c \in Sockets, p \in PeerIds :
          RemoveParticipant(s, r, c, p)
    \/ \E s \in Sockets, r \in RoomIds : GetWaitingParticipants(s, r)
    \/ \E s \in Sockets : Disconnect(s)
    \/ TimerFire

Spec == Init /\ [][Next]_vars

\* ------------------------------------------------------------------ claims
\* the packets of the last handler sent to socket t with event name ev
Packets(t, ev) == {i \in 1..Len(out) : out[i].to = t /\ out[i].ev = ev}

HostFlagged(room) == {p \in DOMAIN room.participants : room.participants[p].isHost}

\* C1: every room has at most one participants record with isHost = true, and
\* whenever hostId is set that record's id equals hostId.
C1_SingleHost ==
    \A r \in DOMAIN rooms :
        /\ Cardinality(HostFlagged(rooms[r])) <= 1
        /\ rooms[r].hostId # Null => \A p \in HostFlagged(rooms[r]) : p = rooms[r].hostId

\* C2: no connection id is a key of both participants and waitingParticipants
\* of a room.
C2_Disjoint ==
    \A r \in DOMAIN rooms :
        (DOMAIN rooms[r].participants) \cap (DOMAIN rooms[r].waitingParticipants) = {}

\* C3: participants holds a record for p with isHost = true if and only if the
\* room's hostId equals p.
C3_HostSlot ==
    \A r \in DOMAIN rooms : \A p \in Sockets :
        (p \in HostFlagged(rooms[r])) <=> (rooms[r].hostId = p)

\* the last handler was an approve-participant that admitted its candidate
Approved ==
    /\ last.ev = "approve-participant"
    /\ Packets(last.pid, "approval-granted") # {}

\* C4: when the host approves a waiting candidate c, c receives a
\* room-participants roster equal to participants without c, and every other
\* member of the room (the approving host included, c excluded) receives
\* exactly one user-joined for c.
C4_ApprovalFanOut ==
    Approved =>
        LET c == last.pid
            ps == rooms[last.room].participants
        IN /\ \E i \in Packets(c, "room-participants") : out[i].data = Del(ps, c)
           /\ \A m \in (DOMAIN ps) \ {c} :
                 /\ Cardinality(Packets(m, "user-joined")) = 1
                 /\ \A i \in Packets(m, "user-joined") : out[i].data.participantId = c
           /\ Packets(c, "user-joined") = {}

\* C5: whenever the connection holding a room's hostId disconnects (by itself
\* or by forced termination), afterwards hostId and hostPeerId are vacant,
\* every remaining member has received exactly one host-left, and every other
\* participants record is still present.
C5_HostDisconnect ==
    [][\A s \in Sockets : \A r \in DOMAIN rooms :
          (conn[s] = "open" /\ conn'[s] = "closed" /\ rooms[r].hostId = s) =>
              /\ r \in DOMAIN rooms'
              /\ rooms'[r].hostId = Null
              /\ rooms'[r].hostPeerId = Null
              /\ \A m \in (DOMAIN rooms[r].participants) \ {s} :
                    /\ m \in DOMAIN rooms'[r].participants
                    /\ rooms'[r].participants[m] = rooms[r].participants[m]
                    /\ Cardinality({i \in 1..Len(out') :
                          out'[i].to = m /\ out'[i].ev = "host-left"}) = 1
      ]_vars

\* C6 (as claimed): if a join-room for the room was processed between the
\* scheduling of a reaper timer and its expiry, the room still exists after
\* the expiry, whatever joins, disconnects and expiries came in between.
C6_JoinAlwaysSaves ==
    [][(last'.ev = "timer" /\ last'.flag) => last'.room \in DOMAIN rooms']_vars

\* C6 (amended): such a timer leaves the room in place, and untouched, when the
\* room holds a participant or a waiting entry at the expiry.
C6_JoinedRoomSurvives ==
    [][(/\ last'.ev = "timer" /\ last'.flag
        /\ last'.room \in DOMAIN rooms
        /\ ~RoomEmpty(rooms[last'.room]))
       => (last'.room \in DOMAIN rooms' /\ rooms' = rooms)]_vars

C6_Witness ==
    /\ last.ev = "timer" /\ last.flag
    /\ last.room \in DOMAIN rooms
    /\ ~RoomEmpty(rooms[last.room])

\* every scheduled grace timer eventually fires
FairSpec == Spec /\ WF_vars(TimerFire)

\* C7: a room that has been joined and is empty again is eventually removed
\* from the registry, unless a join-room makes it non-empty first.  The claim
\* assumes that scheduled timers fire, which the timers of an ended process
\* do not.
C7_EmptyRoomReaped ==
    \A r \in RoomIds :
        (r \in everJoined /\ r \in DOMAIN rooms /\ RoomEmpty(rooms[r]))
            ~> (r \notin DOMAIN rooms \/ ~RoomEmpty(rooms[r]) \/ ~alive)

C7_Witness ==
    /\ last.ev = "timer" /\ ~last.flag
    /\ last.room \in everJoined
    /\ last.room \notin DOMAIN rooms

\* C8: a join-room on an existing room whose hostId is vacant makes the joiner
\* the host whatever isHost flag it carries: hostId is the joiner, its
\* participants record has isHost and both media flags set, and it has
\* received host-status.
C8_VacantHostJoin ==
    [][(/\ last'.ev = "join-room"
        /\ last'.room \in DOMAIN rooms
        /\ rooms[last'.room].hostId = Null)
       => LET s == last'.sock
              room == rooms'[last'.room]
          IN /\ room.hostId = s
             /\ s \in DOMAIN room.participants
             /\ room.participants[s].isHost
             /\ room.participants[s].audioEnabled
             /\ room.participants[s].videoEnabled
             /\ \E i \in 1..Len(out') : out'[i].to = s /\ out'[i].ev = "host-status"
      ]_vars

C8_Witness ==
    /\ last.ev = "join-room" /\ ~last.flag
    /\ last.room \in DOMAIN rooms
    /\ rooms[last.room].hostId = last.sock
    /\ Packets(last.sock, "host-status") # {}
    /\ rooms[last.room].participants[last.sock].isHost

\* the last handler was a reject-participant that turned candidate c away from r
Rejected(r, c) ==
    /\ last.ev = "reject-participant" /\ last.room = r /\ last.pid = c
    /\ Packets(c, "approval-rejected") # {}

\* C9: once the host has rejected a waiting candidate c, c's connection is
\* terminated and c is never again in participants or waitingParticipants of
\* that room.
C9_RejectedStaysOut ==
    \A r \in RoomIds : \A c \in Sockets :
        [](Rejected(r, c) =>
            [](/\ conn[c] = "closed"
               /\ r \in DOMAIN rooms =>
                     /\ c \notin DOMAIN rooms[r].participants
                     /\ c \notin DOMAIN rooms[r].waitingParticipants))

C9_Witness ==
    \E r \in DOMAIN rooms : \E c \in Sockets :
        /\ Rejected(r, c)
        /\ conn[c] = "closed"
        /\ ~RoomEmpty(rooms[r])

\* C10: approve-participant, reject-participant and remove-participant from a
\* connection that is not the room's hostId reply with an error to the caller
\* only, and change nothing.
C10_UnauthorizedNoEffect ==
    [][(/\ last'.ev \in {"approve-participant", "reject-participant",
                         "remove-participant"}
        /\ \/ last'.room \notin DOMAIN rooms
           \/ rooms[last'.room].hostId # last'.sock)
       => /\ rooms' = rooms
          /\ conn' = conn /\ joined' = joined /\ timers' = timers
          /\ Len(out') = 1
          /\ out'[1].to = last'.sock
          /\ out'[1].ev = "error"
      ]_vars

C10_Witness ==
    /\ last.ev \in {"approve-participant", "reject-participant"}
    /\ last.room \in DOMAIN rooms
    /\ rooms[last.room].hostId # last.sock
    /\ last.pid \in DOMAIN rooms[last.room].waitingParticipants
    /\ Len(out) = 1 /\ out[1].ev = "error" /\ out[1].to = last.sock

\* C11: a join-room naming a room id that is not in the registry yields
\* room-error to the caller and changes nothing.
C11_UnknownRoomRejected ==
    [][(last'.ev = "join-room" /\ last'.room \notin DOMAIN rooms)
       => /\ out' = <<Msg(last'.sock, "room-error", Null)>>
          /\ rooms' = rooms
          /\ alive'
      ]_vars

\* C12: once the disconnect of a connection has been processed, the connection
\* is a key of no room's participants and of no room's waitingParticipants.
C12_DisconnectedInNoRoom ==
    \A c \in Sockets :
        conn[c] = "closed" =>
            \A r \in DOMAIN rooms :
                /\ c \notin DOMAIN rooms[r].participants
                /\ c \notin DOMAIN rooms[r].waitingParticipants

\* a connection that was a member of two rooms has disconnected: the other
\* connection was told so once per room
C12_Witness ==
    /\ last.ev = "disconnect"
    /\ conn[last.sock] = "closed"
    /\ Cardinality(DOMAIN rooms) = 2
    /\ Cardinality({i \in 1..Len(out) : out[i].ev \in {"user-left", "host-left"}}) = 2

\* C13: no connection listed in a room's waitingParticipants has join()ed that
\* room's relay group, so a room broadcast never reaches the waiting set.
C13_WaitingOutsideRelay ==
    \A r \in DOMAIN rooms :
        \A c \in DOMAIN rooms[r].waitingParticipants : r \notin joined[c]

\* C14: whenever join-room admits the caller directly as host, the roster
\* sent to the new host equals the room's members other than the caller, the
\* room holding nobody else just before the admission.
C14_HostJoinsEmptyRoom ==
    [][(/\ last'.ev = "join-room"
        /\ \E i \in 1..Len(out') : out'[i].ev = "host-status")
       => LET ps == rooms[last'.room].participants
          IN \A i \in 1..Len(out') :
                 out'[i].ev = "room-participants"
                     => out'[i].data = Del(ps, last'.sock)
      ]_vars

\* C15: when the host removes a target t that is in participants, t receives
\* you-were-removed, every other member the host is removing t from receives
\* user-removed for t, t's record is deleted, t's connection is terminated, and
\* the termination causes no user-left broadcast for t.
C15_RemovalFanOut ==
    [][(/\ last'.ev = "remove-participant"
        /\ last'.room \in DOMAIN rooms
        /\ rooms[last'.room].hostId = last'.sock
        /\ last'.pid \in DOMAIN rooms[last'.room].participants)
       => LET r == last'.room
              s == last'.sock
              t == last'.pid
          IN /\ \E i \in 1..Len(out') :
                    out'[i].to = t /\ out'[i].ev = "you-were-removed"
             /\ \A m \in DOMAIN rooms[r].participants \ {s, t} :
                    \E i \in 1..Len(out') :
                        /\ out'[i].to = m
                        /\ out'[i].ev = "user-removed"
                        /\ out'[i].data.participantId = t
             /\ t \notin DOMAIN rooms'[r].participants
             /\ conn'[t] = "closed"
             /\ \A i \in 1..Len(out') :
                    out'[i].ev = "user-left" => out'[i].data.participantId # t
      ]_vars

\* C16: a join-room without the host flag on a room whose hostId is set puts
\* the joiner in waitingParticipants and sends it waiting-for-approval, the
\* host receives exactly one join-request with the joiner's id, username and
\* peerId, participants is unchanged and no user-joined is sent.
C16_WaitingJoin ==
    [][(/\ last'.ev = "join-room"
        /\ ~last'.flag
        /\ last'.room \in DOMAIN rooms
        /\ rooms[last'.room].hostId # Null)
       => LET r == last'.room
              s == last'.sock
              host == rooms[r].hostId
          IN /\ s \in DOMAIN rooms'[r].waitingParticipants
             /\ \E i \in 1..Len(out') :
                    out'[i].to = s /\ out'[i].ev = "waiting-for-approval"
             /\ Cardinality({i \in 1..Len(out') :
                    /\ out'[i].to = host
                    /\ out'[i].ev = "join-request"
                    /\ out'[i].data = [participantId |-> s,
                                       username |-> UsernameOf(s),
                                       peerId |-> PeerIdOf(s)]}) = 1
             /\ rooms'[r].participants = rooms[r].participants
             /\ \A i \in 1..Len(out') : out'[i].ev # "user-joined"
      ]_vars

\* C17: a room leaves the registry only at a timer expiry at which its
\* participants and waitingParticipants are both empty, however many timers
\* are pending for it, and an expiry for a room already deleted changes nothing.
C17_OnlyEmptyRoomsReaped ==
    [][/\ \A r \in DOMAIN rooms :
              r \notin DOMAIN rooms'
                  => /\ last'.ev = "timer"
                     /\ last'.room = r
                     /\ DOMAIN rooms[r].participants = {}
                     /\ DOMAIN rooms[r].waitingParticipants = {}
       /\ (last'.ev = "timer" /\ last'.room \notin DOMAIN rooms)
              => /\ rooms' = rooms
                 /\ conn' = conn
                 /\ joined' = joined
                 /\ out' = << >>
      ]_vars

\* of two timers pending for the same empty room the first has expired and
\* deleted it; the second is still to expire on the deleted room
C17_Witness ==
    /\ last.ev = "timer"
    /\ last.room \notin DOMAIN rooms
    /\ \E i \in 1..Len(timers) : timers[i].room = last.room

\* C18: a room that was created and has never received a join-room is never
\* removed from the registry.
C18_NeverJoinedKept ==
    \A r \in 1..created : r \notin everJoined => r \in DOMAIN rooms

\* C19: each connection id is a key of the participants or waitingParticipants
\* of at most one room.
C19_OneRoomPerConnection ==
    \A c \in Sockets :
        Cardinality({r \in DOMAIN rooms :
            \/ c \in DOMAIN rooms[r].participants
            \/ c \in DOMAIN rooms[r].waitingParticipants}) <= 1

\* C20: a room's hostId is vacant or the id of a connection that is
\* currently connected.
C20_HostConnected ==
    \A r \in DOMAIN rooms :
        rooms[r].hostId # Null => conn[rooms[r].hostId] = "open"

====
